---- MODULE Spec2Model ----
(***************************************************************************)
(* Voice calorie tracker (voice-calorie-tracker/app.py): the turn          *)
(* controller `response`, its three remote clients, the session state      *)
(* AppState and the gradio event wiring (start_recording, stop_recording,  *)
(* the restart chain and the "New Conversation" button).                   *)
(*                                                                         *)
(* Python values:                                                          *)
(*   None            the empty tuple <<>>                                  *)
(*   str             a TLA+ string                                         *)
(*   Optional[str]   None or Some(text) = <<text>>                         *)
(*   audio tuple     <<sample_rate, samples>>                              *)
(*   AppState object state[s] is the object gr.State of session s holds;   *)
(*                   an invocation of response() refers either to that     *)
(*                   very object ([ref |-> "session"]) or to an object     *)
(*                   nothing else refers to ([ref |-> "own", obj |-> ..])  *)
(* Probabilities are in hundredths (0.7 is 70).  A handler that performs   *)
(* no remote call runs as one step; `response` is cut at its remote calls. *)
(***************************************************************************)
EXTENDS Integers, Sequences, FiniteSets, TLC

VARIABLES
    sessions,      \* the browser sessions that are connected
    state,         \* session -> the AppState object held by gr.State
    chatbot,       \* session -> messages shown by the Chatbot component
    output_audio,  \* session -> value of the "AI Response" Audio component
    input_audio,   \* session -> value of the "Input Audio" component
    recording,     \* session -> whether the microphone is recording
    chain,         \* session -> "restart" while the .then chain is pending
    threads,       \* the invocations of response() that are running
    files          \* the paths that exist under /tmp

vars == <<sessions, state, chatbot, output_audio, input_audio,
          recording, chain, threads, files>>

----------------------------------------------------------------------------
(* Bounds *)

MaxTurns == 2

MaxThreads == 1

----------------------------------------------------------------------------
(* Values *)

None == <<>>

Some(x) == <<x>>

AllSessions == {1, 2}

NoSpeechThreshold == 70

TTSSampleRate == 24000

\* xxh32 digests have 2^32 values; the range is narrowed to 2^16 to stay
\* within the integers of the model checker
HashRange == 65536

BytesPerSample == 4

ErrorPlaceholder == "Error in audio transcription."

\* the recordings the microphone can deliver: (sample rate, samples)
Recordings == {<<48000, 1>>}

\* what the transcription endpoint can answer with (verbose_json, parsed)
Completions ==
    { [segments |-> <<[no_speech_prob |-> 90]>>, text |-> "hm"],
      [segments |-> <<[no_speech_prob |-> 70]>>, text |-> " hi "],
      [segments |-> <<[no_speech_prob |-> 10]>>, text |-> "Errors"] }

\* the messages of the exceptions a remote call can raise
Exceptions == {"timeout"}

\* the contents the chat endpoint can answer with
Replies == {"ok"}

\* what the speech endpoint can answer with: status and body length in bytes
TTSResponses ==
    { [status |-> 200, nbytes |-> 8],
      [status |-> 500, nbytes |-> 0] }

Raised(msg) == [exc |-> msg]

IsRaised(r) == "exc" \in DOMAIN r

----------------------------------------------------------------------------
(* Pure functions *)

startswith(s, prefix) ==
    /\ Len(s) >= Len(prefix)
    /\ SubSeq(s, 1, Len(prefix)) = prefix

RECURSIVE lstrip(_)
lstrip(s) ==
    IF Len(s) > 0 /\ SubSeq(s, 1, 1) = " "
    THEN lstrip(SubSeq(s, 2, Len(s)))
    ELSE s

RECURSIVE rstrip(_)
rstrip(s) ==
    IF Len(s) > 0 /\ SubSeq(s, Len(s), Len(s)) = " "
    THEN rstrip(SubSeq(s, 1, Len(s) - 1))
    ELSE s

strip(s) == rstrip(lstrip(s))

\* `is not None` in place of bool(x)
TruthyNotNone(x) == x # None

\* bool(x) of an Optional[str]
Truthy(x) == x # None /\ x[1] # ""

\* dict.get(key, default)
Get(d, key, default) == IF key \in DOMAIN d THEN d[key] ELSE default

xxh32(samples) == samples % HashRange

FileName(audio) == <<"/tmp", xxh32(audio[2]), ".wav">>

AppState == [conversation |-> <<>>, stopped |-> FALSE, model_outs |-> None,
             last_audio_response |-> None]

\* the no-speech probability is not looked at
process_whisper_response_any(completion) ==
    IF Len(completion.segments) > 0
    THEN Some(strip(completion.text))
    ELSE None

\* the probability of the last segment is the one looked at
process_whisper_response_last(completion) ==
    IF Len(completion.segments) > 0
    THEN LET no_speech_prob ==
                 Get(completion.segments[Len(completion.segments)],
                     "no_speech_prob", 0)
         IN  IF no_speech_prob > NoSpeechThreshold
             THEN None
             ELSE Some(strip(completion.text))
    ELSE None

\* lines 55-66
process_whisper_response(completion) ==
    IF Len(completion.segments) > 0
    THEN LET no_speech_prob == Get(completion.segments[1], "no_speech_prob", 0)
         IN  IF no_speech_prob > NoSpeechThreshold
             THEN None
             ELSE Some(strip(completion.text))
    ELSE None

\* `answer` is what the try block meets: the completion the endpoint sends,
\* or the exception that open() or the request raises
transcribe_audio(file_name, answer) ==
    IF file_name = None THEN None
    ELSE IF IsRaised(answer)
         THEN Some("Error in transcription: " \o answer.exc)
    ELSE process_whisper_response(answer)

SystemPrompt == "In conversation with the user, ask questions to estimate and provide (1) total calories, (2) protein, carbs, and fat in grams, (3) fiber and sugar content. Only ask *one question at a time*. Be conversational and natural."

\* the last message of the history is left out of the request
ChatMessagesTruncated(history) ==
    <<[role |-> "system", content |-> SystemPrompt]>>
        \o SubSeq(history, 1, Len(history) - 1)

\* lines 88-97: the messages sent to the chat endpoint
ChatMessages(history) ==
    <<[role |-> "system", content |-> SystemPrompt]>> \o history

\* the exception is replaced by a fixed text
generate_chat_completion_filtered(history, answer) ==
    IF IsRaised(answer)
    THEN "Error in generating chat completion."
    ELSE answer.content

\* lines 99-107: the assistant message, or the error string of line 107
generate_chat_completion(history, answer) ==
    IF IsRaised(answer)
    THEN "Error in generating chat completion: " \o answer.exc
    ELSE answer.content

\* np.frombuffer(audio_bytes, dtype=np.float32): the number of samples, or
\* an exception when the buffer is not a whole number of samples
text_to_speech(text, answer) ==
    IF IsRaised(answer) THEN answer
    ELSE IF answer.status # 200 THEN Raised("TTS API error")
    ELSE IF answer.nbytes % BytesPerSample # 0 THEN Raised("ValueError")
    ELSE [value |-> <<TTSSampleRate, answer.nbytes \div BytesPerSample>>]

----------------------------------------------------------------------------
(* Helpers of the state *)

SessionRef == [ref |-> "session"]

OwnRef(obj) == [ref |-> "own", obj |-> obj]

\* the object a reference of an invocation of session s refers to
Deref(st, s, r) == IF r.ref = "session" THEN st[s] ELSE r.obj

\* an invocation of response(state, audio) at its entry
Call(s, audio) ==
    [pc |-> "called", session |-> s, cancelled |-> FALSE, state |-> SessionRef,
     audio |-> audio, file_name |-> None, transcription |-> None,
     assistant_message |-> "", ret |-> <<>>,
     arg_state |-> state[s], answers |-> <<>>]

\* the invocations of response() whose result the session waits for
InFlight(s) == {th \in threads : th.session = s /\ ~th.cancelled}

\* the AppState objects that are alive: those of the sessions and those only
\* an invocation still refers to
RECURSIVE Messages(_, _)
Messages(ss, ths) ==
    IF ss # {}
    THEN LET s == CHOOSE x \in ss : TRUE
         IN  Len(state[s].conversation) + Messages(ss \ {s}, ths)
    ELSE IF ths # {}
    THEN LET th == CHOOSE x \in ths : TRUE
         IN  (IF th.state.ref = "own" THEN Len(th.state.obj.conversation) ELSE 0)
             + Messages(ss, ths \ {th})
    ELSE 0

\* every message appended with the role "user"
AppendMessageAsUser(conversation, role, content) ==
    Append(conversation, [role |-> "user", content |-> content])

\* list.insert(0, ...) in place of list.append
AppendMessageFront(conversation, role, content) ==
    <<[role |-> role, content |-> content]>> \o conversation

\* the assistant message is not appended
AppendMessageUserOnly(conversation, role, content) ==
    IF role = "assistant" THEN conversation
    ELSE Append(conversation, [role |-> role, content |-> content])

\* the assistant message overwrites the last message of the list
AppendMessageOverLast(conversation, role, content) ==
    IF role = "assistant" /\ Len(conversation) > 0
    THEN [conversation EXCEPT ![Len(conversation)] =
              [role |-> role, content |-> content]]
    ELSE Append(conversation, [role |-> role, content |-> content])

\* list.append of a message
AppendMessage(conversation, role, content) ==
    Append(conversation, [role |-> role, content |-> content])

\* the transcription used as it came, without the substitution
UserTextRaw(transcription) == transcription[1]

\* lines 129-131: the text of the user turn for a truthy transcription
UserText(transcription) ==
    IF startswith(transcription[1], "Error")
    THEN ErrorPlaceholder
    ELSE transcription[1]

\* the except branch leaves last_audio_response as it was
AudioAfterTTSKept(previous, result) ==
    IF IsRaised(result) THEN previous ELSE result.value

\* lines 140-145: last_audio_response after the try/except around the
\* synthesis call
AudioAfterTTS(previous, result) ==
    IF IsRaised(result) THEN None ELSE result.value

\* the file is never deleted
RemoveNothing(fs, file_name) == fs

\* line 151: os.remove(file_name) of a file that exists
Remove(fs, file_name) == fs \ {file_name}

\* line 153: the value response() returns for the state object `obj` that
\* `r` refers to; the second component is the conversation list of that object
ReturnValue(r, obj) == <<r, r, obj.last_audio_response>>

\* the handler leaves the audio output as it is
CancelOutputsKeepAudio(s) == <<AppState, [recording |-> FALSE], output_audio[s]>>

\* line 256: the value the "New Conversation" handler returns
CancelOutputs(s) == <<AppState, [recording |-> FALSE], None>>

\* the handler empties the session's object in place of making a new one
CancelledRefShared(s, r) == r

\* line 256: AppState() is a new object, so an invocation that goes on
\* running after the click keeps the object it was called with to itself
CancelledRef(s, r) == IF r.ref = "session" THEN OwnRef(state[s]) ELSE r

\* the references in a returned value that was not delivered yet
CancelledRet(s, ret) ==
    IF Len(ret) = 3
    THEN <<CancelledRef(s, ret[1]), CancelledRef(s, ret[2]), ret[3]>>
    ELSE ret

----------------------------------------------------------------------------
(* Initial state *)

InitWith(connected) ==
    /\ sessions = connected
    /\ state = [s \in AllSessions |-> AppState]
    /\ chatbot = [s \in AllSessions |-> <<>>]
    /\ output_audio = [s \in AllSessions |-> None]
    /\ input_audio = [s \in AllSessions |-> None]
    /\ recording = [s \in AllSessions |-> FALSE]
    /\ chain = [s \in AllSessions |-> "none"]
    /\ threads = {}
    /\ files = {}

Init == InitWith({1})

----------------------------------------------------------------------------
(* Event handlers *)

\* the invocation `th` becomes `new`, and the object it works on `obj`; a
\* cancelled invocation that has ended is awaited by nothing
Step(th, new, obj) ==
    /\ threads' = (threads \ {th}) \cup
          (IF th.cancelled /\ new.pc \in {"returned", "raised"} THEN {}
           ELSE {IF th.state.ref = "own"
                 THEN [new EXCEPT !.state = OwnRef(obj)] ELSE new})
    /\ state' = IF th.state.ref = "session"
                THEN [state EXCEPT ![th.session] = obj]
                ELSE state

\* input_audio.start_recording(process_audio, [input_audio, state],
\* [input_audio, state]): both values are passed through.  The microphone
\* is started while no turn of the session is being processed.
StartRecording(s) ==
    /\ s \in sessions
    /\ ~recording[s]
    /\ chain[s] = "none"
    /\ InFlight(s) = {}
    /\ recording' = [recording EXCEPT ![s] = TRUE]
    /\ input_audio' = [input_audio EXCEPT ![s] = input_audio[s]]
    /\ state' = [state EXCEPT ![s] = state[s]]
    /\ UNCHANGED <<sessions, chatbot, output_audio, chain, threads, files>>

\* input_audio.stop_recording(response, [state, input_audio], ...): the
\* recording `audio` arrives and response(state, audio) runs up to its first
\* remote call (lines 120-126).  MaxThreads and MaxTurns bound the
\* invocations of a session that run at once and the messages that are held.
StopRecording(s, audio) ==
    /\ s \in sessions
    /\ recording[s]
    /\ Cardinality({th \in threads : th.session = s}) < MaxThreads
    /\ audio # None => Messages(sessions, threads) < 2 * MaxTurns
    /\ recording' = [recording EXCEPT ![s] = FALSE]
    /\ input_audio' = [input_audio EXCEPT ![s] = audio]
    /\ IF audio = None
       THEN \* return AppState(): one value, a new object
            /\ threads' = threads \cup
                  {[Call(s, audio) EXCEPT !.pc = "returned",
                                          !.ret = <<OwnRef(AppState)>>]}
            /\ files' = files
       ELSE \* sf.write(file_name, ...)
            /\ threads' = threads \cup
                  {[Call(s, audio) EXCEPT !.pc = "transcribing",
                                          !.file_name = FileName(audio)]}
            /\ files' = files \cup {FileName(audio)}
    /\ UNCHANGED <<sessions, state, chatbot, output_audio, chain>>

\* lines 128-134 (and 153 when the transcription is falsy): the
\* transcription endpoint answers
Transcribe(th, answer) ==
    /\ th.pc = "transcribing"
    /\ LET obj == Deref(state, th.session, th.state)
           met == IF th.file_name \in files THEN answer
                  ELSE Raised("No such file or directory")
           transcription == transcribe_audio(th.file_name, met)
           log == Append(th.answers, [client |-> "transcription",
                                      sent |-> th.file_name, answer |-> met])
       IN  IF Truthy(transcription)
           THEN Step(th,
                     [th EXCEPT !.pc = "generating",
                                !.transcription = Some(UserText(transcription)),
                                !.answers = log],
                     [obj EXCEPT !.conversation =
                         AppendMessage(@, "user", UserText(transcription))])
           ELSE Step(th,
                     [th EXCEPT !.pc = "returned",
                                !.transcription = transcription,
                                !.answers = log,
                                !.ret = ReturnValue(th.state, obj)],
                     obj)
    /\ UNCHANGED <<sessions, chatbot, output_audio, input_audio,
                   recording, chain, files>>

\* line 137: the chat endpoint answers
Generate(th, answer) ==
    /\ th.pc = "generating"
    /\ LET obj == Deref(state, th.session, th.state)
       IN  Step(th,
                [th EXCEPT !.pc = "synthesizing",
                           !.assistant_message =
                               generate_chat_completion(obj.conversation, answer),
                           !.answers = Append(@, [client |-> "dialogue",
                                                  sent |-> ChatMessages(obj.conversation),
                                                  answer |-> answer])],
                obj)
    /\ UNCHANGED <<sessions, chatbot, output_audio, input_audio,
                   recording, chain, files>>

\* lines 139-153: the speech endpoint answers; the assistant message is
\* appended, the temporary file removed and the result returned.
\* os.remove raises when the file is gone, and then nothing is returned.
Synthesize(th, answer) ==
    /\ th.pc = "synthesizing"
    /\ LET obj == Deref(state, th.session, th.state)
           result == text_to_speech(th.assistant_message, answer)
           new == [obj EXCEPT
                     !.last_audio_response = AudioAfterTTS(@, result),
                     !.conversation =
                         AppendMessage(@, "assistant", th.assistant_message)]
           log == Append(th.answers, [client |-> "synthesis",
                                      sent |-> th.assistant_message,
                                      answer |-> answer])
       IN  IF th.file_name \in files
           THEN /\ files' = Remove(files, th.file_name)
                /\ Step(th,
                        [th EXCEPT !.pc = "returned", !.answers = log,
                                   !.ret = ReturnValue(th.state, new)],
                        new)
           ELSE /\ files' = files
                /\ Step(th, [th EXCEPT !.pc = "raised", !.answers = log], new)
    /\ UNCHANGED <<sessions, chatbot, output_audio, input_audio,
                   recording, chain>>

\* outputs [state, chatbot, output_audio] of the stop_recording event: the
\* returned values are written to the three components.  A handler that
\* raised, or that returned fewer values than there are outputs, ends in an
\* error and delivers nothing; a cancelled event delivers nothing either.
\* The .then chain follows every event that was not cancelled.
Deliver(th) ==
    /\ th.pc \in {"returned", "raised"}
    /\ LET s == th.session
           ok == ~th.cancelled /\ th.pc = "returned" /\ Len(th.ret) = 3
       IN  /\ state' = IF ok
                       THEN [state EXCEPT ![s] = Deref(state, s, th.ret[1])]
                       ELSE state
           /\ chatbot' = IF ok
                         THEN [chatbot EXCEPT ![s] =
                                  Deref(state, s, th.ret[2]).conversation]
                         ELSE chatbot
           /\ output_audio' = IF ok
                              THEN [output_audio EXCEPT ![s] = th.ret[3]]
                              ELSE output_audio
           /\ chain' = IF th.cancelled THEN chain
                       ELSE [chain EXCEPT ![s] = "restart"]
           /\ threads' = threads \ {th}
    /\ UNCHANGED <<sessions, input_audio, recording, files>>

\* respond.then(start_recording_user, [state], [input_audio])
\*        .then(lambda state: state, state, state)
Restart(s) ==
    /\ chain[s] = "restart"
    /\ input_audio' = [input_audio EXCEPT ![s] = None]
    /\ state' = [state EXCEPT ![s] = state[s]]
    /\ chain' = [chain EXCEPT ![s] = "none"]
    /\ UNCHANGED <<sessions, chatbot, output_audio, recording, threads, files>>

\* cancel.click(lambda: (AppState(), gr.Audio(recording=False), None), None,
\* [state, input_audio, output_audio], cancels=[respond, restart])
NewConversation(s) ==
    /\ s \in sessions
    /\ LET out == CancelOutputs(s)
       IN  /\ threads' = {IF th.session = s
                          THEN [th EXCEPT !.cancelled = TRUE,
                                          !.state = CancelledRef(s, @),
                                          !.ret = CancelledRet(s, @)]
                          ELSE th : th \in threads}
           /\ state' = [state EXCEPT ![s] = out[1]]
           /\ recording' = [recording EXCEPT ![s] = out[2].recording]
           /\ output_audio' = [output_audio EXCEPT ![s] = out[3]]
           /\ chain' = [chain EXCEPT ![s] = "none"]
    /\ UNCHANGED <<sessions, chatbot, input_audio, files>>

----------------------------------------------------------------------------
(* Specification *)

TranscriptionAnswers == Completions \cup {Raised(e) : e \in Exceptions}

DialogueAnswers == {[content |-> r] : r \in Replies} \cup {Raised(e) : e \in Exceptions}

\* a failure of the speech endpoint is drawn as its non-200 answer, which
\* text_to_speech turns into an exception
SynthesisAnswers == TTSResponses

Next ==
    \/ \E s \in AllSessions : StartRecording(s)
    \/ \E s \in AllSessions, audio \in Recordings \cup {None} : StopRecording(s, audio)
    \/ \E th \in threads, answer \in TranscriptionAnswers : Transcribe(th, answer)
    \/ \E th \in threads, answer \in DialogueAnswers : Generate(th, answer)
    \/ \E th \in threads, answer \in SynthesisAnswers : Synthesize(th, answer)
    \/ \E th \in threads : Deliver(th)
    \/ \E s \in AllSessions : Restart(s)
    \/ \E s \in AllSessions : NewConversation(s)

Spec == Init /\ [][Next]_vars

\* line 241 and line 262: every browser session gets its own AppState and
\* the sessions run side by side; two sessions are connected
InitTwo == InitWith(AllSessions)

\* the turns of two sessions that record the same samples: lines 247-252
\* without the reset of line 254
NextTwo ==
    \/ \E s \in AllSessions : StartRecording(s)
    \/ \E s \in AllSessions, audio \in Recordings : StopRecording(s, audio)
    \/ \E th \in threads, answer \in TranscriptionAnswers : Transcribe(th, answer)
    \/ \E th \in threads, answer \in DialogueAnswers : Generate(th, answer)
    \/ \E th \in threads, answer \in SynthesisAnswers : Synthesize(th, answer)
    \/ \E th \in threads : Deliver(th)
    \/ \E s \in AllSessions : Restart(s)

SpecTwo == InitTwo /\ [][NextTwo]_vars

\* the longest list of segments the transcription endpoint answers with
MaxSegments == 2

\* lines 56-58: a segment of the parsed answer, with or without the
\* no_speech_prob field (in percent)
WhisperSegments ==
    {[id |-> 0]} \cup {[id |-> 0, no_speech_prob |-> p] : p \in {10, 70, 71}}

\* line 64: the text of the parsed answer, before strip()
WhisperTexts == {" hi ", "  ", ""}

\* lines 74-82: the parsed answers of the transcription endpoint: any list
\* of segments with any text
WhisperCompletions ==
    {[segments |-> segs, text |-> t] :
        segs \in UNION {[1..n -> WhisperSegments] : n \in 0..MaxSegments},
        t \in WhisperTexts}

\* the turns of one session on every answer of the transcription endpoint:
\* lines 247-252 without the reset of line 254
NextWhisper ==
    \/ \E s \in AllSessions : StartRecording(s)
    \/ \E s \in AllSessions, audio \in Recordings : StopRecording(s, audio)
    \/ \E th \in threads,
          answer \in WhisperCompletions \cup {Raised(e) : e \in Exceptions} :
              Transcribe(th, answer)
    \/ \E th \in threads, answer \in DialogueAnswers : Generate(th, answer)
    \/ \E th \in threads, answer \in SynthesisAnswers : Synthesize(th, answer)
    \/ \E th \in threads : Deliver(th)
    \/ \E s \in AllSessions : Restart(s)

SpecWhisper == Init /\ [][NextWhisper]_vars

----------------------------------------------------------------------------
(* What the claims speak of *)

IsPrefix(p, q) == Len(p) <= Len(q) /\ SubSeq(q, 1, Len(p)) = p

\* the AppState object an invocation works on, and the transcript it had
\* when the invocation was called
Obj(th) == Deref(state, th.session, th.state)

Before(th) == th.arg_state.conversation

\* the values of a returned triple
RetState(th) == Deref(state, th.session, th.ret[1])

RetTranscript(th) == Deref(state, th.session, th.ret[2]).conversation

RetAudio(th) == th.ret[3]

Returned(th) == th.pc = "returned" /\ Len(th.ret) = 3

\* what the invocation sent to the three endpoints and what they answered,
\* in the order asked
Answered(th, i, client) ==
    Len(th.answers) >= i /\ th.answers[i].client = client

SttAnswer(th) == th.answers[1].answer

\* the endpoint reports a first segment whose no-speech probability is
\* above 0.7
IsSilence(answer) ==
    /\ ~IsRaised(answer)
    /\ Len(answer.segments) > 0
    /\ "no_speech_prob" \in DOMAIN answer.segments[1]
    /\ answer.segments[1].no_speech_prob > 70

\* the endpoint reports speech: a text with something in it
HasSpeech(answer) ==
    /\ ~IsRaised(answer)
    /\ Len(answer.segments) > 0
    /\ ~IsSilence(answer)
    /\ strip(answer.text) # ""

SynthesisFailed(answer) == IsRaised(answer) \/ answer.status # 200

\* the transcript is the one before the call, then a user turn, then an
\* assistant turn
ExtendedByTwo(before, after) ==
    /\ Len(after) = Len(before) + 2
    /\ IsPrefix(before, after)
    /\ after[Len(before) + 1].role = "user"
    /\ after[Len(before) + 2].role = "assistant"

----------------------------------------------------------------------------
(* Claims *)

\* C1: a turn whose transcription succeeds with speech and whose dialogue
\* call returns a reply returns the input transcript followed by one user
\* turn and one assistant turn, in that order.
C1_SuccessfulTurnAddsTwo ==
    \A th \in threads :
        ( /\ Returned(th)
          /\ Answered(th, 2, "dialogue")
          /\ HasSpeech(SttAnswer(th))
          /\ ~IsRaised(th.answers[2].answer) )
        => ExtendedByTwo(Before(th), RetTranscript(th))

C1_Witness ==
    \E th \in threads :
        /\ Returned(th)
        /\ Answered(th, 2, "dialogue")
        /\ HasSpeech(SttAnswer(th))
        /\ ~IsRaised(th.answers[2].answer)
        /\ Len(Before(th)) = 2
        /\ Len(RetTranscript(th)) = 4

\* C2 (as claimed): a turn on a recording classified as silence returns the
\* transcript unchanged and no audio, whatever audio the session held.
C2_SilenceReturnsNoAudio ==
    \A th \in threads :
        (Returned(th) /\ Answered(th, 1, "transcription") /\ IsSilence(SttAnswer(th)))
        => /\ RetTranscript(th) = Before(th)
           /\ RetAudio(th) = None

\* C3: a silent turn leaves every field of the session state as it was and
\* asks neither the dialogue nor the synthesis endpoint.
C3_SilenceIsNoOp ==
    \A th \in threads :
        (Answered(th, 1, "transcription") /\ IsSilence(SttAnswer(th)))
        => /\ th.pc = "returned"
           /\ Obj(th) = th.arg_state
           /\ RetState(th) = th.arg_state
           /\ Len(th.answers) = 1

C3_Witness ==
    \E th \in threads :
        /\ Answered(th, 1, "transcription") /\ IsSilence(SttAnswer(th))
        /\ th.pc = "returned"
        /\ Len(th.arg_state.conversation) > 0
        /\ th.arg_state.last_audio_response # None

\* C4: when speech synthesis fails, the turn still returns the transcript
\* extended by the user and the assistant turn, returns no audio, and the
\* session's last audio is none, also when an earlier turn had stored audio.
C4_SynthesisFailureClearsAudio ==
    \A th \in threads :
        (Answered(th, 3, "synthesis") /\ SynthesisFailed(th.answers[3].answer))
        => /\ ExtendedByTwo(Before(th), Obj(th).conversation)
           /\ Obj(th).last_audio_response = None
           /\ Returned(th) =>
                /\ RetTranscript(th) = Obj(th).conversation
                /\ RetAudio(th) = None
                /\ RetState(th).last_audio_response = None

C4_Witness ==
    \E th \in threads :
        /\ Answered(th, 3, "synthesis") /\ SynthesisFailed(th.answers[3].answer)
        /\ Returned(th)
        /\ th.arg_state.last_audio_response # None

\* C5: when the transcription call fails, the user turn that is appended
\* carries the fixed placeholder, never the error message, and the turn goes
\* on to the dialogue call and appends an assistant turn.
C5_TranscriptionFailurePlaceholder ==
    \A th \in threads :
        (Answered(th, 1, "transcription") /\ IsRaised(SttAnswer(th)))
        => /\ th.pc \in {"generating", "synthesizing", "returned", "raised"}
           /\ Len(Obj(th).conversation) > Len(Before(th))
           /\ Obj(th).conversation[Len(Before(th)) + 1] =
                 [role |-> "user", content |-> "Error in audio transcription."]
           /\ th.pc = "returned" =>
                /\ Answered(th, 2, "dialogue")
                /\ ExtendedByTwo(Before(th), RetTranscript(th))

C5_Witness ==
    \E th \in threads :
        /\ Answered(th, 1, "transcription") /\ IsRaised(SttAnswer(th))
        /\ SttAnswer(th).exc = "timeout"
        /\ Returned(th)

\* C6 (as claimed): for every text the transcription returns, the user turn
\* carries exactly that text and the assistant turn exactly the dialogue
\* endpoint's text, also for texts that begin with "Error".
C6_TurnsCarryExactTexts ==
    \A th \in threads :
        (Returned(th) /\ Answered(th, 2, "dialogue") /\ HasSpeech(SttAnswer(th))
           /\ ~IsRaised(th.answers[2].answer))
        => /\ RetTranscript(th)[Len(Before(th)) + 1] =
                 [role |-> "user", content |-> strip(SttAnswer(th).text)]
           /\ RetTranscript(th)[Len(Before(th)) + 2] =
                 [role |-> "assistant", content |-> th.answers[2].answer.content]

\* C7: "New Conversation", from any state, yields a session state with an
\* empty transcript and no last audio, and clears the audio output.
C7_ResetYieldsFreshSession ==
    [][\A s \in sessions :
          NewConversation(s) =>
             /\ state'[s].conversation = <<>>
             /\ state'[s].last_audio_response = None
             /\ output_audio'[s] = None]_vars

\* a reset has acted on a turn in flight that had a transcript and audio
C7_Witness ==
    \E th \in threads :
        /\ th.cancelled
        /\ th.state.ref = "own"
        /\ Len(th.state.obj.conversation) > 2
        /\ th.state.obj.last_audio_response # None
        /\ state[th.session] = AppState
        /\ output_audio[th.session] = None

\* C8: once a session was reset, no step of an abandoned turn touches it:
\* while no newer turn is in flight, the stored transcript stays empty and
\* the stored and the played audio stay none.
C8_AbandonedTurnNeverApplied ==
    [][\A s \in sessions :
          (InFlight(s) = {} /\ state[s] = AppState /\ output_audio[s] = None)
          => (state'[s] = AppState /\ output_audio'[s] = None)]_vars

\* an abandoned turn went on to append to the object it was called with
C8_Witness ==
    \E th \in threads :
        /\ th.cancelled
        /\ th.pc = "synthesizing"
        /\ th.state.ref = "own"
        /\ Len(th.state.obj.conversation) = Len(Before(th)) + 1
        /\ state[th.session] = AppState
        /\ output_audio[th.session] = None
        /\ InFlight(th.session) = {}

\* C9 (as claimed): a turn with no recorded audio returns the triple of
\* every other turn, with a brand-new empty session, an empty transcript and
\* no audio.
C9_NoAudioReturnsTriple ==
    \A th \in threads :
        (th.audio = None /\ th.pc = "returned")
        => /\ Len(th.ret) = 3
           /\ RetState(th) = AppState
           /\ RetTranscript(th) = <<>>
           /\ RetAudio(th) = None

\* during a turn the transcript it was called with stays a prefix, and a
\* returned turn that was not silent has added its own user turn and then
\* its own assistant turn
C10_TurnAppendsOwnPair ==
    \A th \in threads :
        /\ IsPrefix(Before(th), Obj(th).conversation)
        /\ (Returned(th) /\ Len(th.answers) = 3) =>
              RetTranscript(th) =
                 Before(th) \o <<[role |-> "user", content |-> th.transcription[1]],
                                 [role |-> "assistant", content |-> th.assistant_message]>>

\* C10: the transcript is append-only between resets (every step but a
\* reset keeps the old transcript as a prefix of the new one), and every
\* turn appends its own pair after the pairs of the turns before it.
C10_AppendOnly ==
    []C10_TurnAppendsOwnPair
    /\ [][\A s \in sessions :
            \/ IsPrefix(state[s].conversation, state'[s].conversation)
            \/ NewConversation(s)]_vars

\* two turns one after the other: user1, assistant1, user2, assistant2
C10_Witness ==
    \E th \in threads :
        /\ Returned(th) /\ ~th.cancelled
        /\ Before(th) = <<[role |-> "user", content |-> "hi"],
                          [role |-> "assistant", content |-> "ok"]>>
        /\ state[th.session].conversation =
              Before(th) \o <<[role |-> "user", content |-> "Error in audio transcription."],
                              [role |-> "assistant",
                               content |-> "Error in generating chat completion: timeout"]>>

\* the invocation is past line 126 and before line 153
Running(th) == th.pc \in {"transcribing", "generating", "synthesizing"}

\* C11: whatever the three endpoints answer, an invocation of response() on a
\* recording ends by returning its triple: none ends with an exception.
\* Stated as the claim has it; under SpecTwo the os.remove of line 151
\* raises when another session's turn on the same samples has already
\* deleted the file, and the invocation ends with that exception.
C11_TurnAlwaysReturns ==
    \A th \in threads :
        th.audio # None =>
            /\ th.pc # "raised"
            /\ Len(th.answers) = 3 => Returned(th)

\* C12: two turns that run at once in different sessions never use the same
\* temporary file, and none is told that its recording is missing.
\* Stated as the claim has it; violated under SpecTwo, where both sessions
\* record the same samples and line 124 gives both the same path.
C12_NoSharedTempFile ==
    /\ \A t1, t2 \in threads :
           (t1.session # t2.session /\ Running(t1) /\ Running(t2))
               => t1.file_name # t2.file_name
    /\ \A th \in threads :
           Answered(th, 1, "transcription")
               => SttAnswer(th) # Raised("No such file or directory")

\* the invocation asked the chat endpoint and the call raised
DialogueFailed(th) ==
    Answered(th, 2, "dialogue") /\ IsRaised(th.answers[2].answer)

\* C13: when the chat call fails, the error string built from its exception
\* is the assistant message: the chat endpoint is asked once, the string is
\* the text sent to the speech endpoint, and it is appended unchanged as the
\* assistant turn after the user turn.
C13_DialogueErrorIsAssistantTurn ==
    \A th \in threads :
        DialogueFailed(th) =>
            LET msg == "Error in generating chat completion: "
                           \o th.answers[2].answer.exc
            IN  /\ th.assistant_message = msg
                /\ \A i \in 1..Len(th.answers) :
                       th.answers[i].client = "dialogue" => i = 2
                /\ Answered(th, 3, "synthesis") =>
                       /\ th.answers[3].sent = msg
                       /\ Len(Obj(th).conversation) = Len(Before(th)) + 2
                       /\ Obj(th).conversation[Len(Before(th)) + 2]
                              = [role |-> "assistant", content |-> msg]

C13_Witness ==
    \E th \in threads :
        /\ DialogueFailed(th)
        /\ Returned(th)
        /\ RetTranscript(th)[Len(Before(th)) + 2].content
               = "Error in generating chat completion: timeout"

\* the order in which response() calls the endpoints
CallOrder == <<"transcription", "dialogue", "synthesis">>

\* C14: the three remote calls of a turn are made one after the other, each
\* after the one before it has answered, and the chat call is sent the whole
\* transcript: the system message, the transcript from before the turn and
\* the user turn of this turn; the speech call is sent the chat call's result.
C14_CallsInOrder ==
    \A th \in threads :
        /\ Len(th.answers) <= 3
        /\ \A i \in 1..Len(th.answers) : th.answers[i].client = CallOrder[i]
        /\ th.pc = "transcribing" => Len(th.answers) = 0
        /\ th.pc = "generating" => Len(th.answers) = 1
        /\ th.pc = "synthesizing" => Len(th.answers) = 2
        /\ Answered(th, 2, "dialogue") =>
               LET sent == th.answers[2].sent
                   n == Len(Before(th))
               IN  /\ Len(sent) = n + 2
                   /\ sent[1].role = "system"
                   /\ SubSeq(sent, 2, n + 1) = Before(th)
                   /\ sent[n + 2] = [role |-> "user",
                                     content |-> th.transcription[1]]
        /\ (Answered(th, 3, "synthesis") /\ ~DialogueFailed(th)) =>
               th.answers[3].sent = th.answers[2].answer.content

C14_Witness ==
    \E th \in threads :
        /\ Answered(th, 3, "synthesis")
        /\ Len(Before(th)) = 2
        /\ Len(th.answers[2].sent) = 4
        /\ ~DialogueFailed(th)

\* the transcription call returned a string that is not empty: a text, or
\* the error string of a failed call
GotText(answer) == IsRaised(answer) \/ HasSpeech(answer)

\* the invocation on a recording has ended
Ended(th) == th.audio # None /\ th.pc \in {"returned", "raised"}

\* C15 as stated: at the end of a turn the temporary file is gone exactly
\* when the transcription succeeded; after a failed transcription and after
\* silence it is still there.
C15_RemovedIffSucceeded ==
    \A th \in threads :
        Ended(th) => (th.file_name \notin files <=> HasSpeech(SttAnswer(th)))

C15_TurnReachesRemoval ==
    \A th \in threads :
        Ended(th) => (Len(th.answers) = 3 <=> GotText(SttAnswer(th)))

\* C15 (amended): a turn deletes its temporary file exactly when the
\* transcription call returned a non-empty string, a text or the error
\* string of a failed call: such a turn goes on to the step of line 151,
\* after which the file is gone, and no other turn reaches that step; a turn
\* on silence or on an empty text ends at the transcription step, which
\* leaves the files as they are.
C15_RemovedIffGotText ==
    /\ []C15_TurnReachesRemoval
    /\ [][\A th \in threads :
             /\ (\E answer \in SynthesisAnswers : Synthesize(th, answer))
                    => th.file_name \notin files'
             /\ (\E answer \in TranscriptionAnswers : Transcribe(th, answer))
                    => files' = files]_vars

\* a turn whose transcription failed has ended and its file is gone
C15_Witness ==
    \E th \in threads :
        /\ Returned(th)
        /\ IsRaised(SttAnswer(th))
        /\ Len(th.answers) = 3
        /\ th.file_name \notin files

\* the transcript the invocation works on ends with its assistant turn
EndsWithAssistantTurn(th) ==
    LET conversation == Obj(th).conversation
    IN  /\ Len(conversation) = Len(Before(th)) + 2
        /\ conversation[Len(conversation)]
               = [role |-> "assistant", content |-> th.assistant_message]

\* C16 as stated: the assistant turn is appended before the speech call, so
\* the transcript ends with it while the call is in progress and after it.
C16_AssistantBeforeSynthesis ==
    \A th \in threads :
        (th.pc = "synthesizing" \/ Answered(th, 3, "synthesis"))
            => EndsWithAssistantTurn(th)

\* C16 (amended): the assistant turn is appended after the speech call: while
\* the call is in progress the transcript ends with the user turn of this
\* turn, and once the call has answered or failed it ends with the
\* assistant turn.
C16_AssistantAfterSynthesis ==
    \A th \in threads :
        /\ th.pc = "synthesizing" =>
               LET conversation == Obj(th).conversation
               IN  /\ Len(conversation) = Len(Before(th)) + 1
                   /\ conversation[Len(conversation)]
                          = [role |-> "user", content |-> th.transcription[1]]
        /\ Answered(th, 3, "synthesis") => EndsWithAssistantTurn(th)

\* the speech call of a turn is in progress, and another turn's has ended
C16_Witness ==
    \E th \in threads :
        /\ th.pc = "synthesizing"
        /\ Len(Before(th)) = 2
        /\ Obj(th).conversation[3].role = "user"
        /\ Obj(th).conversation[2].role = "assistant"

\* the answer has no segments, or its first segment carries a no-speech
\* probability above 0.7
ClassifiedSilent(answer) ==
    \/ Len(answer.segments) = 0
    \/ /\ "no_speech_prob" \in DOMAIN answer.segments[1]
       /\ answer.segments[1].no_speech_prob > 70

\* the texts of the endpoint with the white space at both ends taken off
Trimmed == (" hi " :> "hi") @@ ("  " :> "") @@ ("" :> "")

\* the transcription call of the invocation was answered with a completion
Transcribed(th) ==
    Answered(th, 1, "transcription") /\ ~IsRaised(SttAnswer(th))

\* C17: a completion is classified as silence, the null result, exactly when
\* it has no segments or its first segment's no-speech probability is above
\* 0.7; with 0.7 or less, or with no probability in the first segment, the
\* result is the trimmed text, whatever the later segments hold.  The turn
\* acts on that result: it ends at once on silence and carries the trimmed
\* text otherwise.
C17_SilenceClassification ==
    \A th \in threads :
        Transcribed(th) =>
            LET answer == SttAnswer(th)
            IN  /\ process_whisper_response(answer)
                       = IF ClassifiedSilent(answer) THEN None
                         ELSE Some(Trimmed[answer.text])
                /\ ClassifiedSilent(answer) =>
                       th.pc = "returned" /\ th.transcription = None
                /\ ~ClassifiedSilent(answer) =>
                       th.transcription = Some(Trimmed[answer.text])

\* the first segment is at 0.7 exactly and a later one above: the text is
\* taken
C17_Witness ==
    \E th \in threads :
        /\ Transcribed(th)
        /\ Len(SttAnswer(th).segments) = 2
        /\ SttAnswer(th).segments[1] = [id |-> 0, no_speech_prob |-> 70]
        /\ SttAnswer(th).segments[2] = [id |-> 0, no_speech_prob |-> 71]
        /\ th.pc = "generating"
        /\ th.transcription = Some("hi")

\* the transcription call gave a string that is not empty: the error string
\* of a failed call, or a text that is not silence and not white space only
NonEmptyResult(answer) ==
    \/ IsRaised(answer)
    \/ ~ClassifiedSilent(answer) /\ Trimmed[answer.text] # ""

NoEmptyUserTurn(conversation) ==
    \A i \in 1..Len(conversation) :
        conversation[i].role = "user" => conversation[i].content # ""

\* C20: no user turn with an empty text is ever in a transcript, and a turn
\* appends a user turn exactly when the transcription call returned a
\* non-empty string; a text that is empty or white space only is handled as
\* silence is: the turn returns after the one call with the session object
\* as it was.
C20_NoEmptyUserTurn ==
    /\ \A s \in sessions : NoEmptyUserTurn(state[s].conversation)
    /\ \A th \in threads :
           /\ NoEmptyUserTurn(Obj(th).conversation)
           /\ Answered(th, 1, "transcription") =>
                  LET answer == SttAnswer(th)
                      n == Len(Before(th))
                  IN  /\ Len(Obj(th).conversation) > n <=> NonEmptyResult(answer)
                      /\ NonEmptyResult(answer) =>
                             /\ Obj(th).conversation[n + 1].role = "user"
                             /\ Obj(th).conversation[n + 1].content
                                    = th.transcription[1]
                      /\ ~NonEmptyResult(answer) =>
                             /\ th.pc = "returned"
                             /\ Len(th.answers) = 1
                             /\ ~Truthy(th.transcription)
                             /\ Obj(th) = th.arg_state

\* a text of white space only, not classified as silence, in a second turn
C20_Witness ==
    \E th \in threads :
        /\ Transcribed(th)
        /\ ~ClassifiedSilent(SttAnswer(th))
        /\ SttAnswer(th).text = "  "
        /\ th.pc = "returned"
        /\ Len(Before(th)) = 2
        /\ RetTranscript(th) = Before(th)

\* user and assistant turns in turn, a user turn first, as many of one as
\* of the other
Alternates(conversation) ==
    /\ Len(conversation) % 2 = 0
    /\ \A i \in 1..Len(conversation) :
           conversation[i].role = IF i % 2 = 1 THEN "user" ELSE "assistant"

\* C18: whenever no turn of a session is in flight, the session transcript
\* has even length and alternates user turn, assistant turn, beginning with
\* a user turn; no other role is in it.
C18_IdleTranscriptAlternates ==
    \A s \in sessions :
        InFlight(s) = {} => Alternates(state[s].conversation)

\* two turns have ended, one on a failed chat call and one on a failed
\* transcription
C18_Witness ==
    \E s \in sessions :
        /\ InFlight(s) = {}
        /\ Len(state[s].conversation) = 4
        /\ state[s].conversation[2].content
               = "Error in generating chat completion: timeout"
        /\ state[s].conversation[3].content = ErrorPlaceholder

\* C19: whenever no turn of a session is in flight, the chatbot shows the
\* session transcript; after the reset it shows the empty transcript.
\* Stated as the claim has it; violated after New Conversation, whose
\* outputs (line 257) leave the chatbot out.
C19_DisplayEqualsTranscript ==
    \A s \in sessions :
        InFlight(s) = {} => chatbot[s] = state[s].conversation

====
